---- MODULE Spec2Model ----
(***************************************************************************)
(* A model of PriceMachine (src/project.py): a record store filled from    *)
(* the CSV files of a directory whose names contain 'price', exported to   *)
(* HTML and searched interactively.                                        *)
(*                                                                         *)
(* Text is modelled as a sequence of one-character strings, so that        *)
(* lower(), the substring test and the string order are computed.  The     *)
(* Cyrillic header and field names of the source are transliterated:       *)
(*   nazvanie, produkt, tovar, naimenovanie; cena, roznica;                *)
(*   fasovka, massa, ves; fajl; cena_za_kg.                                *)
(***************************************************************************)
EXTENDS Integers, Sequences, FiniteSets, TLC

VARIABLES fs, data, search_results, files, stdout, pc, ret, exc, stdin, hist

vars == <<fs, data, search_results, files, stdout, pc, ret, exc, stdin, hist>>

(***************************************************************************)
(* Bounds of the model.                                                    *)
(***************************************************************************)
MaxFiles == 2    \* entries of the scanned directory
MaxStore == 4    \* records in the store
MaxInputs == 2   \* lines before 'exit' that one interactive_search reads
MaxHits == 4     \* records in search_results

(***************************************************************************)
(* Text.                                                                   *)
(***************************************************************************)
Range(s) == {s[i] : i \in 1..Len(s)}

\* str.lower(), one character
LowerChar(c) ==
    CASE c = "A" -> "a" [] c = "B" -> "b" [] c = "P" -> "p" [] c = "R" -> "r"
      [] c = "I" -> "i" [] c = "C" -> "c" [] c = "E" -> "e" [] c = "X" -> "x"
      [] c = "T" -> "t" [] OTHER -> c

\* str.lower()
Lower(s) == [i \in 1..Len(s) |-> LowerChar(s[i])]

\* the code point of a character, which orders Python strings
Ord(c) ==
    CASE c = "-" -> 45
      [] c = "0" -> 48 [] c = "1" -> 49 [] c = "2" -> 50 [] c = "3" -> 51
      [] c = "4" -> 52 [] c = "5" -> 53 [] c = "6" -> 54 [] c = "7" -> 55
      [] c = "8" -> 56 [] c = "9" -> 57
      [] c = "A" -> 65 [] c = "B" -> 66 [] c = "C" -> 67 [] c = "E" -> 69
      [] c = "I" -> 73 [] c = "P" -> 80 [] c = "R" -> 82 [] c = "T" -> 84
      [] c = "X" -> 88
      [] c = "a" -> 97 [] c = "b" -> 98 [] c = "c" -> 99 [] c = "e" -> 101
      [] c = "i" -> 105 [] c = "p" -> 112 [] c = "r" -> 114 [] c = "t" -> 116
      [] c = "x" -> 120

\* sub in s
Contains(sub, s) ==
    \E i \in 0..(Len(s) - Len(sub)) : SubSeq(s, i + 1, i + Len(sub)) = sub

\* s < t for Python strings: the first differing code point decides, a
\* proper prefix is smaller
StrLess(s, t) ==
    \E i \in 1..Len(t) :
        /\ \A j \in 1..(i - 1) : j <= Len(s) /\ s[j] = t[j]
        /\ \/ i = Len(s) + 1
           \/ i <= Len(s) /\ Ord(s[i]) < Ord(t[i])

(***************************************************************************)
(* Numbers.  float() of the cells the model uses, and the quotient as an   *)
(* exact fraction <<n, d>> in lowest terms with d > 0.                     *)
(***************************************************************************)
Digits == {"0", "1", "2", "3", "4", "5", "6", "7", "8", "9"}

DigitVal(c) == Ord(c) - Ord("0")

RECURSIVE DigitsVal(_)
DigitsVal(s) ==
    IF s = <<>> THEN 0
    ELSE 10 * DigitsVal(SubSeq(s, 1, Len(s) - 1)) + DigitVal(s[Len(s)])

\* the texts float() accepts, among texts over the model's alphabet:
\* an optional minus sign and one or more decimal digits
IsFloat(s) ==
    LET body == IF s # <<>> /\ s[1] = "-" THEN Tail(s) ELSE s
    IN  body # <<>> /\ Range(body) \subseteq Digits

\* float(s) for such a text
ParseFloat(s) ==
    IF s[1] = "-" THEN 0 - DigitsVal(Tail(s)) ELSE DigitsVal(s)

Abs(n) == IF n < 0 THEN 0 - n ELSE n

RECURSIVE Gcd(_, _)
Gcd(a, b) == IF b = 0 THEN a ELSE Gcd(b, a % b)

\* p / w, w # 0
Quot(p, w) ==
    LET g == Gcd(Abs(p), Abs(w))
        sgn == IF w < 0 THEN 0 - 1 ELSE 1
    IN  <<(sgn * p) \div g, (sgn * w) \div g>>

RatLess(x, y) == x[1] * y[2] < y[1] * x[2]

\* f'{x:.2f}' as a number of hundredths: round to nearest, ties to even
\* (a tie needs a denominator of 8 here, and such a quotient is exact as a
\* float)
Fmt2(x) ==
    LET n == Abs(x[1])
        q == (100 * n) \div x[2]
        r == (100 * n) % x[2]
        up == 2 * r > x[2] \/ (2 * r = x[2] /\ q % 2 = 1)
        h == IF up THEN q + 1 ELSE q
    IN  IF x[1] < 0 THEN 0 - h ELSE h

(***************************************************************************)
(* The file system.  A directory entry is [name, kind, fieldnames, lines]: *)
(* kind "file" is a readable CSV file with its header line and its data    *)
(* lines (each a sequence of cells), kind "dir" is an entry open() fails   *)
(* on.  A cell is a text; None stands for Python's None.                   *)
(***************************************************************************)
None == <<"None">>

PRODUCT_KEYS == <<"nazvanie", "produkt", "tovar", "naimenovanie">>
PRICE_KEYS == <<"cena", "roznica">>
WEIGHT_KEYS == <<"fasovka", "massa", "ves">>

\* csv.DictReader: the dict of one data line.  A later duplicate header
\* wins; a line shorter than the header gets None for the missing cells.
DictRow(fieldnames, line) ==
    [h \in Range(fieldnames) |->
        LET i == CHOOSE k \in 1..Len(fieldnames) :
                    /\ fieldnames[k] = h
                    /\ \A m \in (k + 1)..Len(fieldnames) : fieldnames[m] # h
        IN  IF i <= Len(line) THEN line[i] ELSE None]

\* _get_value that passes over a key whose value is empty
RECURSIVE _get_value_NonEmpty(_, _)
_get_value_NonEmpty(item, keys) ==
    IF keys = <<>> THEN None
    ELSE IF Head(keys) \in DOMAIN item /\ item[Head(keys)] # None
                                       /\ item[Head(keys)] # <<>>
    THEN item[Head(keys)]
    ELSE _get_value_NonEmpty(item, Tail(keys))

RECURSIVE _get_value(_, _)
_get_value(item, keys) ==
    IF keys = <<>> THEN None
    ELSE IF Head(keys) \in DOMAIN item THEN item[Head(keys)]
    ELSE _get_value(item, Tail(keys))

\* truth value of an Optional[str]
Truthy(v) == v # None /\ v # <<>>

\* the row body with a weight of zero stored with a price per kg of zero
\* instead of the division raising
LoadRow_ZeroWeight(d, filename, row) ==
    LET product_name == _get_value(row, PRODUCT_KEYS)
        price == _get_value(row, PRICE_KEYS)
        weight == _get_value(row, WEIGHT_KEYS)
    IN  IF ~(Truthy(product_name) /\ Truthy(price) /\ Truthy(weight))
        THEN [data |-> d, err |-> ""]
        ELSE IF ~IsFloat(price) \/ ~IsFloat(weight)
        THEN [data |-> d, err |-> "ValueError"]
        ELSE [data |-> Append(d, [naimenovanie |-> product_name,
                                  cena |-> ParseFloat(price),
                                  ves |-> ParseFloat(weight),
                                  fajl |-> filename,
                                  cena_za_kg |->
                                      IF ParseFloat(weight) = 0 THEN <<0, 1>>
                                      ELSE Quot(ParseFloat(price),
                                                ParseFloat(weight))]),
              err |-> ""]

\* the body of "for row in reader" for one row: [data, err], err the
\* exception it raises ("" for none)
LoadRow(d, filename, row) ==
    LET product_name == _get_value(row, PRODUCT_KEYS)
        price == _get_value(row, PRICE_KEYS)
        weight == _get_value(row, WEIGHT_KEYS)
    IN  IF ~(Truthy(product_name) /\ Truthy(price) /\ Truthy(weight))
        THEN [data |-> d, err |-> ""]
        ELSE IF ~IsFloat(price) \/ ~IsFloat(weight)
        THEN [data |-> d, err |-> "ValueError"]
        ELSE IF ParseFloat(weight) = 0
        THEN [data |-> d, err |-> "ZeroDivisionError"]
        ELSE [data |-> Append(d, [naimenovanie |-> product_name,
                                  cena |-> ParseFloat(price),
                                  ves |-> ParseFloat(weight),
                                  fajl |-> filename,
                                  cena_za_kg |-> Quot(ParseFloat(price),
                                                      ParseFloat(weight))]),
              err |-> ""]

\* "for row in reader": rows in file order until one raises; the reader
\* skips empty lines
RECURSIVE LoadRows(_, _, _, _)
LoadRows(d, filename, fieldnames, lines) ==
    IF lines = <<>> THEN [data |-> d, err |-> ""]
    ELSE IF Head(lines) = <<>>
    THEN LoadRows(d, filename, fieldnames, Tail(lines))
    ELSE LET r == LoadRow(d, filename, DictRow(fieldnames, Head(lines)))
         IN  IF r.err # "" THEN r
             ELSE LoadRows(r.data, filename, fieldnames, Tail(lines))

\* the try block for one matching entry
LoadFile(d, entry) ==
    IF entry.kind # "file" THEN [data |-> d, err |-> "IsADirectoryError"]
    ELSE LoadRows(d, entry.name, entry.fieldnames, entry.lines)

\* a marker that lost its first letter
IsPriceName_Rice(filename) == Contains(<<"r", "i", "c", "e">>, Lower(filename))

\* 'price' in filename.lower()
IsPriceName(filename) == Contains(<<"p", "r", "i", "c", "e">>, Lower(filename))

\* the scan of the directory: [data, out], out the error lines printed
RECURSIVE LoadDir(_, _, _)
LoadDir(d, out, entries) ==
    IF entries = <<>> THEN [data |-> d, out |-> out]
    ELSE IF ~IsPriceName(Head(entries).name)
    THEN LoadDir(d, out, Tail(entries))
    ELSE LET r == LoadFile(d, Head(entries))
         IN  LoadDir(r.data,
                     IF r.err = "" THEN out
                     ELSE Append(out, [msg |-> "read error",
                                       arg |-> Head(entries).name]),
                     Tail(entries))

(***************************************************************************)
(* Sorting and rendering.                                                  *)
(***************************************************************************)
\* (x["naimenovanie"], x["cena_za_kg"]) < (y[...], y[...])
KeyLess(x, y) ==
    \/ StrLess(x.naimenovanie, y.naimenovanie)
    \/ x.naimenovanie = y.naimenovanie /\ RatLess(x.cena_za_kg, y.cena_za_kg)

\* sorted(items, key=...): stable, so an item goes after the items that
\* came before it and are not greater
RECURSIVE Sorted(_)
Sorted(items) ==
    IF items = <<>> THEN <<>>
    ELSE LET init == Sorted(SubSeq(items, 1, Len(items) - 1))
             x == items[Len(items)]
             k == Cardinality({i \in 1..Len(init) : ~KeyLess(x, init[i])})
         IN  SubSeq(init, 1, k) \o <<x>> \o SubSeq(init, k + 1, Len(init))

\* one <tr> of the table
Tr(idx, item) ==
    [idx |-> idx, naimenovanie |-> item.naimenovanie, cena |-> item.cena,
     ves |-> item.ves, fajl |-> item.fajl, cena_za_kg |-> Fmt2(item.cena_za_kg)]

\* the data rows of the table written for items already in order
Table(items) == [i \in 1..Len(items) |-> Tr(i, items[i])]

\* find_text comparing the name as stored, not in lower case
find_text_CaseSensitive(d, text) ==
    LET hit(i) == Contains(Lower(text), d[i].naimenovanie)
        RECURSIVE Pick(_)
        Pick(i) == IF i > Len(d) THEN <<>>
                   ELSE IF hit(i) THEN <<d[i]>> \o Pick(i + 1) ELSE Pick(i + 1)
    IN  Sorted(Pick(1))

\* find_text
find_text(d, text) ==
    LET hit(i) == Contains(Lower(text), Lower(d[i].naimenovanie))
        RECURSIVE Pick(_)
        Pick(i) == IF i > Len(d) THEN <<>>
                   ELSE IF hit(i) THEN <<d[i]>> \o Pick(i + 1) ELSE Pick(i + 1)
    IN  Sorted(Pick(1))

(***************************************************************************)
(* The methods, as functions of the state they read.                       *)
(***************************************************************************)
\* the paths a caller can pass: a directory, a missing path, a plain file
Paths == {"prices", "missing", "notadir"}

\* load_prices that returns the store as it is for a missing path
load_prices_NoRaise(d, out, entries, path) ==
    IF path = "missing"
    THEN [data |-> d, out |-> out, exc |-> ""]
    ELSE IF path = "notadir"
    THEN [data |-> d, out |-> out, exc |-> "NotADirectoryError"]
    ELSE LET r == LoadDir(d, out, entries)
         IN  [data |-> r.data, out |-> r.out, exc |-> ""]

\* load_prices that empties the store before the scan
load_prices_Reset(d, out, entries, path) ==
    IF path = "missing"
    THEN [data |-> d, out |-> out, exc |-> "FileNotFoundError"]
    ELSE IF path = "notadir"
    THEN [data |-> d, out |-> out, exc |-> "NotADirectoryError"]
    ELSE LET r == LoadDir(<<>>, out, entries)
         IN  [data |-> r.data, out |-> r.out, exc |-> ""]

\* load_prices: [data, out, exc]
load_prices(d, out, entries, path) ==
    IF path = "missing"
    THEN [data |-> d, out |-> out, exc |-> "FileNotFoundError"]
    ELSE IF path = "notadir"
    THEN [data |-> d, out |-> out, exc |-> "NotADirectoryError"]
    ELSE LET r == LoadDir(d, out, entries)
         IN  [data |-> r.data, out |-> r.out, exc |-> ""]

\* a file that does not exist, and an HTML file with its title and rows
Absent == [exists |-> FALSE]
Html(title, rows) == [exists |-> TRUE, title |-> title, rows |-> rows]

\* what an earlier run of another program state left in the directory
Stale(title) ==
    Html(title, <<[idx |-> 1, naimenovanie |-> <<"o", "l", "d">>, cena |-> 1,
                   ves |-> 1, fajl |-> <<"p", "r", "i", "c", "e">>,
                   cena_za_kg |-> 100]>>)

\* export_to_html that renders the store in its own order
export_to_html_Unsorted(d, fl, writable) ==
    IF ~writable THEN [files |-> fl, exc |-> "PermissionError"]
    ELSE [files |-> [fl EXCEPT !.output = Html("Pozicii produktov", Table(d))],
          exc |-> ""]

\* export_to_html: [files, exc]
export_to_html(d, fl, writable) ==
    IF ~writable THEN [files |-> fl, exc |-> "PermissionError"]
    ELSE [files |-> [fl EXCEPT !.output =
                        Html("Pozicii produktov", Table(Sorted(d)))],
          exc |-> ""]

\* export_search_results_to_html: [files, exc]
export_search_results_to_html(results, fl, writable) ==
    IF results = <<>> THEN [files |-> fl, exc |-> ""]
    ELSE IF ~writable THEN [files |-> fl, exc |-> "PermissionError"]
    ELSE [files |-> [fl EXCEPT !.search =
                        Html("Rezultaty poiska", Table(Sorted(results)))],
          exc |-> ""]

\* search_text == 'exit', the case of the letters kept
IsExit_CaseSensitive(text) == text = <<"e", "x", "i", "t">>

\* search_text.lower() == 'exit'
IsExit(text) == Lower(text) = <<"e", "x", "i", "t">>

\* the lines the user types
Texts == {<<>>, <<"A", "B">>,
          <<"e", "x", "i", "t">>, <<"E", "x", "I", "T">>}

(***************************************************************************)
(* The directory entries the model draws the scanned directory from.       *)
(***************************************************************************)
Csv(name, fieldnames, lines) ==
    [name |-> name, kind |-> "file", fieldnames |-> fieldnames, lines |-> lines]

Catalogue ==
    { Csv(<<"p", "r", "i", "c", "e">>, <<"nazvanie", "cena", "ves">>,
          << <<<<"a", "b">>, <<"4">>, <<"2">>>>,
             <<<<"a", "b">>, <<"-", "2">>, <<"4">>>>,
             <<<<"b">>, <<"x">>, <<"1">>>> >>),
      Csv(<<"a", "P", "R", "I", "C", "E">>,
          <<"tovar", "nazvanie", "roznica", "massa", "Cena">>,
          << <<<<"b">>, <<>>, <<"2">>, <<"4">>, <<"9">>>>,
             <<>>,
             <<<<"a">>, <<"B">>, <<"1", "0">>, <<"8">>, <<"9">>>>,
             <<<<"b">>, <<"a">>>> >>),
      Csv(<<"P", "r", "i", "c", "e", "1">>, <<"produkt", "cena", "fasovka">>,
          << <<<<"A", "b">>, <<"6">>, <<"4">>>>,
             <<<<"b">>, <<"1">>, <<"0">>>>,
             <<<<"a">>, <<"2">>, <<"1">>>> >>),
      Csv(<<"r", "i", "c", "e">>, <<"nazvanie", "cena", "ves">>,
          << <<<<"a">>, <<"1">>, <<"1">>>> >>),
      [name |-> <<"P", "r", "i", "C", "e">>, kind |-> "dir",
       fieldnames |-> <<>>, lines |-> <<>>] }

\* os.listdir returns the entries in an order the file system fixes: the
\* model lists them by name
RECURSIVE Listing(_)
Listing(entries) ==
    IF entries = {} THEN <<>>
    ELSE LET first == CHOOSE e \in entries :
                         \A o \in entries \ {e} : StrLess(e.name, o.name)
         IN  <<first>> \o Listing(entries \ {first})

\* the directories the model scans: up to MaxFiles entries of the catalogue
Listings ==
    {Listing(es) : es \in {x \in SUBSET Catalogue : Cardinality(x) <= MaxFiles}}

(***************************************************************************)
(* The state after PriceMachine().                                         *)
(***************************************************************************)
\* the last call a caller made: the method, its argument and the list of
\* records it returned (<<>> when it raised or returned no list)
Call(method, arg, val) == [call |-> method, arg |-> arg, val |-> val]

NoSearch == [caller |-> "", sr0 |-> <<>>, inputs |-> <<>>, exports |-> 0,
             ended |-> ""]

InitCommon ==
    /\ fs \in [entries : Listings, writable : BOOLEAN]
    /\ \E old \in BOOLEAN :
          files = IF old THEN [output |-> Stale("Pozicii produktov"),
                               search |-> Stale("Rezultaty poiska")]
                  ELSE [output |-> Absent, search |-> Absent]
    /\ data = <<>>
    /\ search_results = <<>>
    /\ stdout = <<>>
    /\ ret = Call("", <<>>, <<>>)
    /\ exc = ""
    /\ stdin = [eof |-> FALSE]
    /\ hist = NoSearch

\* a caller in a fresh, writable working directory
Init == InitCommon /\ fs.writable /\ ~files.output.exists /\ pc = "idle"

(***************************************************************************)
(* Calls of the methods by a caller.  The caller observes each call on its *)
(* own: ret is what the last call returned, exc the exception it raised    *)
(* ("" for none), stdout what it printed, hist the record of the           *)
(* interactive_search in progress or just ended.                           *)
(***************************************************************************)
LoadPrices(path) ==
    /\ pc = "idle"
    /\ LET r == load_prices(data, <<>>, fs.entries, path)
       IN  /\ Len(r.data) <= MaxStore
           /\ data' = r.data
           /\ stdout' = r.out
           /\ exc' = r.exc
           /\ ret' = Call("load_prices", path,
                          IF r.exc = "" THEN r.data ELSE <<>>)
    /\ hist' = NoSearch
    /\ UNCHANGED <<fs, search_results, files, pc, stdin>>

ExportToHtml ==
    /\ pc = "idle"
    /\ LET r == export_to_html(data, files, fs.writable)
       IN  files' = r.files /\ exc' = r.exc
    /\ ret' = Call("export_to_html", <<>>, <<>>)
    /\ stdout' = <<>>
    /\ hist' = NoSearch
    /\ UNCHANGED <<fs, data, search_results, pc, stdin>>

FindText(text) ==
    /\ pc = "idle"
    /\ ret' = Call("find_text", text, find_text(data, text))
    /\ exc' = ""
    /\ stdout' = <<>>
    /\ hist' = NoSearch
    /\ UNCHANGED <<fs, data, search_results, files, pc, stdin>>

ExportSearchResults ==
    /\ pc = "idle"
    /\ LET r == export_search_results_to_html(search_results, files,
                                               fs.writable)
       IN  files' = r.files /\ exc' = r.exc
    /\ ret' = Call("export_search_results_to_html", <<>>, <<>>)
    /\ stdout' = <<>>
    /\ hist' = NoSearch
    /\ UNCHANGED <<fs, data, search_results, pc, stdin>>

\* interactive_search is entered; it then blocks on input()
InteractiveSearch ==
    /\ pc = "idle"
    /\ pc' = "search"
    /\ hist' = [caller |-> "api", sr0 |-> search_results, inputs |-> <<>>,
                exports |-> 0, ended |-> ""]
    /\ exc' = ""
    /\ ret' = Call("interactive_search", <<>>, <<>>)
    /\ stdout' = <<>>
    /\ UNCHANGED <<fs, data, search_results, files, stdin>>

\* where interactive_search returns to, normally or by an exception
Return(caller, raised) ==
    IF caller = "api" THEN "idle"
    ELSE IF raised THEN "m_except" ELSE "m_end"

\* one turn of the loop of interactive_search: a line is read; 'exit' ends
\* the loop and the search results are exported, any other line is searched
SearchInput(text) ==
    /\ pc = "search"
    /\ ~stdin.eof
    /\ IF IsExit(text)
       THEN LET r == export_search_results_to_html(search_results, files,
                                                   fs.writable)
            IN  /\ stdout' = Append(stdout, [msg |-> "done", arg |-> <<>>])
                /\ files' = r.files
                /\ exc' = r.exc
                /\ pc' = Return(hist.caller, r.exc # "")
                /\ hist' = [hist EXCEPT !.inputs = Append(@, text),
                                        !.exports = @ + 1,
                                        !.ended = "exit"]
                /\ UNCHANGED search_results
       ELSE LET results == find_text(data, text)
            IN  /\ Len(hist.inputs) < MaxInputs
                /\ Len(search_results) + Len(results) <= MaxHits
                /\ IF results # <<>>
                   THEN /\ stdout' = Append(stdout, [msg |-> "hits",
                                                     arg |-> text])
                        /\ search_results' = search_results \o results
                   ELSE /\ stdout' = Append(stdout, [msg |-> "nothing found",
                                                     arg |-> text])
                        /\ UNCHANGED search_results
                /\ hist' = [hist EXCEPT !.inputs = Append(@, text)]
                /\ UNCHANGED <<files, exc, pc>>
    /\ UNCHANGED <<fs, data, ret, stdin>>

\* input() meets the end of standard input: EOFError leaves the loop and
\* interactive_search
SearchEOF ==
    /\ pc = "search"
    /\ stdin' = [stdin EXCEPT !.eof = TRUE]
    /\ exc' = "EOFError"
    /\ pc' = Return(hist.caller, TRUE)
    /\ hist' = [hist EXCEPT !.ended = "eof"]
    /\ UNCHANGED <<fs, data, search_results, files, stdout, ret>>

Next ==
    \/ \E path \in Paths : LoadPrices(path)
    \/ ExportToHtml
    \/ \E text \in Texts : FindText(text)
    \/ ExportSearchResults
    \/ InteractiveSearch
    \/ \E text \in Texts : SearchInput(text)
    \/ SearchEOF

Spec == Init /\ [][Next]_vars

(***************************************************************************)
(* The main program.                                                       *)
(***************************************************************************)
MainInit == InitCommon /\ pc = "m_start"

\* folder_path = input(...); pm = PriceMachine(); pm.load_prices(folder_path)
MainLoad(path) ==
    /\ pc = "m_start"
    /\ LET r == load_prices(data, stdout, fs.entries, path)
       IN  /\ data' = r.data
           /\ stdout' = r.out
           /\ exc' = r.exc
           /\ pc' = IF r.exc # "" THEN "m_except" ELSE "m_export"
           /\ ret' = Call("load_prices", path,
                          IF r.exc = "" THEN r.data ELSE <<>>)
    /\ UNCHANGED <<fs, search_results, files, stdin, hist>>

\* the first input() meets the end of standard input: EOFError is raised
\* outside the try statement and ends the program
MainInputEOF ==
    /\ pc = "m_start"
    /\ stdin' = [stdin EXCEPT !.eof = TRUE]
    /\ exc' = "EOFError"
    /\ pc' = "crashed"
    /\ UNCHANGED <<fs, data, search_results, files, stdout, ret, hist>>

MainExport ==
    /\ pc = "m_export"
    /\ LET r == export_to_html(data, files, fs.writable)
       IN  /\ files' = r.files
           /\ exc' = r.exc
           /\ pc' = IF r.exc # "" THEN "m_except" ELSE "m_search"
    /\ UNCHANGED <<fs, data, search_results, stdout, ret, stdin, hist>>

MainSearch ==
    /\ pc = "m_search"
    /\ pc' = "search"
    /\ hist' = [caller |-> "main", sr0 |-> search_results, inputs |-> <<>>,
                exports |-> 0, ended |-> ""]
    /\ UNCHANGED <<fs, data, search_results, files, stdout, ret, exc, stdin>>

\* except Exception as e: print(...)
MainExcept ==
    /\ pc = "m_except"
    /\ stdout' = Append(stdout, [msg |-> "error", arg |-> <<>>])
    /\ pc' = "m_end"
    /\ UNCHANGED <<fs, data, search_results, files, ret, exc, stdin,
                   hist>>

\* print('the end')
MainEnd ==
    /\ pc = "m_end"
    /\ stdout' = Append(stdout, [msg |-> "the end", arg |-> <<>>])
    /\ pc' = "done"
    /\ UNCHANGED <<fs, data, search_results, files, ret, exc, stdin,
                   hist>>

MainNext ==
    \/ \E path \in Paths : MainLoad(path)
    \/ MainInputEOF
    \/ MainExport
    \/ MainSearch
    \/ \E text \in Texts : SearchInput(text)
    \/ SearchEOF
    \/ MainExcept
    \/ MainEnd

MainSpec == MainInit /\ [][MainNext]_vars

(***************************************************************************)
(* Properties.  The operators below state what the claims say in their own *)
(* terms, not through the operators that model the code.                   *)
(***************************************************************************)
\* the number of positions of a sequence that hold v
Count(seq, v) == Cardinality({i \in 1..Len(seq) : seq[i] = v})

\* text occurs in name when both are put in lower case
MatchesLower(text, name) ==
    \E i \in 0..(Len(name) - Len(text)) :
        \A j \in 1..Len(text) : LowerChar(name[i + j]) = LowerChar(text[j])

\* s <= t, character by character in code point order
RECURSIVE TextLeq(_, _)
TextLeq(s, t) ==
    IF s = <<>> THEN TRUE
    ELSE IF t = <<>> THEN FALSE
    ELSE IF Head(s) # Head(t) THEN Ord(Head(s)) < Ord(Head(t))
    ELSE TextLeq(Tail(s), Tail(t))

\* (name, price per kg) of x is not greater than that of y
PairLeq(x, y) ==
    IF x.naimenovanie # y.naimenovanie
    THEN TextLeq(x.naimenovanie, y.naimenovanie)
    ELSE x.cena_za_kg[1] * y.cena_za_kg[2] <= y.cena_za_kg[1] * x.cena_za_kg[2]

NonDecreasing(items) ==
    \A i \in 1..Len(items) : \A j \in i..Len(items) : PairLeq(items[i], items[j])

\* C1: find_text(text) returns exactly the records of the store whose name
\* contains text when both are in lower case, each as many times as it is
\* stored, in non-decreasing order of (name, price per kg).
C1_FindTextExactAndSorted ==
    ret.call = "find_text" =>
        /\ \A r \in Range(data) \cup Range(ret.val) :
              Count(ret.val, r) =
                 IF MatchesLower(ret.arg, r.naimenovanie)
                 THEN Count(data, r) ELSE 0
        /\ NonDecreasing(ret.val)

\* C1 witness: a text in capitals was searched in a store that holds a record
\* it does not match, and the hits had to be reordered.
C1_Witness ==
    /\ ret.call = "find_text"
    /\ ret.arg = <<"A", "B">>
    /\ Len(ret.val) < Len(data)
    /\ \E i \in 1..Len(data) : \E j \in (i + 1)..Len(data) :
          /\ data[i] \in Range(ret.val) /\ data[j] \in Range(ret.val)
          /\ ~PairLeq(data[i], data[j])

\* the name holds 'price' at some place, whatever the case of its letters
HasPriceIgnoringCase(name) ==
    \E i \in 0..(Len(name) - 5) :
        /\ LowerChar(name[i + 1]) = "p" /\ LowerChar(name[i + 2]) = "r"
        /\ LowerChar(name[i + 3]) = "i" /\ LowerChar(name[i + 4]) = "c"
        /\ LowerChar(name[i + 5]) = "e"

\* C3: after any sequence of load_prices calls every record's file is a
\* directory entry whose name contains 'price' ignoring case; an entry
\* without it contributes no record.
C3_OnlyPriceFiles ==
    \A r \in Range(data) :
        \E e \in Range(fs.entries) :
            e.name = r.fajl /\ HasPriceIgnoringCase(e.name)

\* C3 witness: the directory holds a readable file without 'price' in its
\* name beside one with 'PRICE' in capitals, and records were loaded from
\* the latter.
C3_Witness ==
    /\ \E e \in Range(fs.entries) :
          ~HasPriceIgnoringCase(e.name) /\ e.kind = "file" /\ e.lines # <<>>
    /\ \E r \in Range(data) : r.fajl = <<"a", "P", "R", "I", "C", "E">>

\* C4: every record has a nonzero weight and a price per kg equal to its
\* price divided by its weight; a row with weight zero is never a record.
C4_PricePerKg ==
    \A r \in Range(data) :
        /\ r.ves # 0
        /\ r.cena_za_kg[2] # 0
        /\ r.cena_za_kg[1] * r.ves = r.cena * r.cena_za_kg[2]

\* C4 witness: the file with a zero weight row was read up to that row, and
\* the store holds a quotient that is no whole number and a negative one.
C4_Witness ==
    /\ \E r \in Range(data) : r.fajl = <<"P", "r", "i", "c", "e", "1">>
                              /\ r.cena_za_kg = <<3, 2>>
    /\ \E r \in Range(data) : r.cena_za_kg[1] < 0

\* the one-to-one maps of 1..n onto itself
Perms(n) == {f \in [1..n -> 1..n] : \A i, j \in 1..n : i # j => f[i] # f[j]}

\* C5: export_to_html writes one row per record of the store, duplicates
\* included, in non-decreasing order of (name, price per kg), numbered
\* 1..n; an empty store gives the file with no data row.
C5_ExportRows ==
    (ret.call = "export_to_html" /\ exc = "") =>
        /\ files.output.exists
        /\ Len(files.output.rows) = Len(data)
        /\ \E f \in Perms(Len(data)) :
              /\ NonDecreasing([i \in 1..Len(data) |-> data[f[i]]])
              /\ \A i \in 1..Len(data) :
                    LET row == files.output.rows[i]
                        item == data[f[i]]
                    IN  /\ row.idx = i
                        /\ row.naimenovanie = item.naimenovanie
                        /\ row.cena = item.cena
                        /\ row.ves = item.ves
                        /\ row.fajl = item.fajl

\* C5 witness: the export of a store that holds every record twice and is
\* not in order.
C5_Witness ==
    /\ ret.call = "export_to_html" /\ exc = ""
    /\ Len(data) >= 4
    /\ \A r \in Range(data) : Count(data, r) = 2
    /\ ~NonDecreasing(data)

\* the entries whose reading printed an error
BadFiles == {stdout[i].arg : i \in {k \in 1..Len(stdout) : stdout[k].msg = "read error"}}

\* C2: a file whose reading raises is skipped: load_prices returns normally,
\* the store holds no record of that file, and the other files load as if
\* the file were not in the directory.
C2_BadFileSkipped ==
    (ret.call = "load_prices" /\ ret.arg = "prices") =>
        LET Good(e) == e.name \notin BadFiles
        IN  /\ \A r \in Range(data) : r.fajl \notin BadFiles
            /\ data = LoadDir(<<>>, <<>>, SelectSeq(fs.entries, Good)).data

\* C6: after interactive_search ends the search results file holds the table
\* of the accumulated hits, whatever it held before, also when nothing was
\* found.
C6_SearchFileOverwritten ==
    (hist.ended = "exit" /\ exc = "") =>
        files.search = Html("Rezultaty poiska", Table(Sorted(search_results)))

\* the cell of a line under the first of the keys that is a header of the
\* file (the last column of that header), None without such a header or cell
Taken(fieldnames, line, keys) ==
    LET ks == {k \in 1..Len(keys) : keys[k] \in Range(fieldnames)}
    IN  IF ks = {} THEN None
        ELSE LET k == CHOOSE x \in ks : \A y \in ks : x <= y
                 col == CHOOSE c \in 1..Len(fieldnames) :
                           /\ fieldnames[c] = keys[k]
                           /\ \A c2 \in 1..Len(fieldnames) :
                                 fieldnames[c2] = keys[k] => c2 <= c
             IN  IF col <= Len(line) THEN line[col] ELSE None

NonEmpty(v) == v # None /\ Len(v) > 0

\* the three taken values of line i of an entry are present and non-empty
Complete(e, i) ==
    /\ e.lines[i] # <<>>
    /\ NonEmpty(Taken(e.fieldnames, e.lines[i], PRODUCT_KEYS))
    /\ NonEmpty(Taken(e.fieldnames, e.lines[i], PRICE_KEYS))
    /\ NonEmpty(Taken(e.fieldnames, e.lines[i], WEIGHT_KEYS))

\* a number as written: digits after an optional minus sign
NumberText(v) ==
    /\ Len(v) > 0
    /\ \A j \in 1..Len(v) : v[j] \in Digits \/ (j = 1 /\ v[j] = "-")
    /\ \E j \in 1..Len(v) : v[j] \in Digits

\* line i is complete and its conversion or division raises
Raises(e, i) ==
    /\ Complete(e, i)
    /\ LET price == Taken(e.fieldnames, e.lines[i], PRICE_KEYS)
           weight == Taken(e.fieldnames, e.lines[i], WEIGHT_KEYS)
       IN  \/ ~NumberText(price)
           \/ ~NumberText(weight)
           \/ \A j \in 1..Len(weight) : weight[j] \in {"0", "-"}

\* some recognized synonym of each field is a header with a non-empty cell
HasSome(e, i) ==
    \A keys \in {PRODUCT_KEYS, PRICE_KEYS, WEIGHT_KEYS} :
        \E k \in 1..Len(keys) : \E c \in 1..Len(e.fieldnames) :
            /\ e.fieldnames[c] = keys[k]
            /\ c <= Len(e.lines[i])
            /\ Len(e.lines[i][c]) > 0

\* the records of the store that come from an entry, in store order
RecordsOf(e) == LET From(r) == r.fajl = e.name IN SelectSeq(data, From)

\* the k-th smallest element of a set of numbers
RECURSIVE Kth(_, _)
Kth(S, k) ==
    LET m == CHOOSE x \in S : \A y \in S : x <= y
    IN  IF k = 1 THEN m ELSE Kth(S \ {m}, k - 1)

PriceEntries == {e \in Range(fs.entries) : HasPriceIgnoringCase(e.name)}

\* the state after one load_prices of the directory into the empty store
LoadedOnce == ret.call = "load_prices" /\ ret.arg = "prices"

\* C7 as stated, read in its favour for the files that are read without an
\* error only: a row is a record if and only if its three taken values are
\* present and non-empty, so a row with a non-empty value under some synonym
\* of each field is stored.
C7_RecordIffValuesPresent ==
    LoadedOnce =>
        \A e \in {x \in PriceEntries : x.name \notin BadFiles} :
            /\ Len(RecordsOf(e)) =
                  Cardinality({i \in 1..Len(e.lines) : Complete(e, i)})
            /\ \A i \in 1..Len(e.lines) :
                  HasSome(e, i) =>
                      \E r \in Range(RecordsOf(e)) :
                          \E c \in 1..Len(e.lines[i]) :
                              r.naimenovanie = e.lines[i][c]

\* C7 amended: the value of a field is that of the first synonym that is a
\* header; a row is a record if and only if its three values are present and
\* non-empty, no row of the file up to it raises, and the file can be
\* opened; the records carry the values so taken, in row order.
C7_RecordIffTakenAndNoError ==
    LoadedOnce =>
        \A e \in PriceEntries :
            LET stored == {i \in 1..Len(e.lines) :
                              /\ e.kind = "file"
                              /\ Complete(e, i)
                              /\ \A j \in 1..i : ~Raises(e, j)}
                recs == RecordsOf(e)
            IN  /\ Len(recs) = Cardinality(stored)
                /\ \A k \in 1..Len(recs) :
                      LET line == e.lines[Kth(stored, k)]
                      IN  /\ recs[k].naimenovanie =
                                Taken(e.fieldnames, line, PRODUCT_KEYS)
                          /\ recs[k].cena =
                                ParseFloat(Taken(e.fieldnames, line, PRICE_KEYS))
                          /\ recs[k].ves =
                                ParseFloat(Taken(e.fieldnames, line, WEIGHT_KEYS))

\* C7 witness: a file with two product synonyms was loaded without an error:
\* its row with an empty first synonym is not stored, the row with both
\* values is, with the value of the first synonym.
C7_Witness ==
    /\ LoadedOnce
    /\ \E e \in PriceEntries :
          /\ \E i \in 1..Len(e.lines) : HasSome(e, i) /\ ~Complete(e, i)
          /\ \A i \in 1..Len(e.lines) : ~Raises(e, i)
          /\ \E r \in Range(RecordsOf(e)) :
                r.naimenovanie = <<"B">> /\ r.cena = 10 /\ r.ves = 8

\* text is 'exit' whatever the case of its letters
EqualsExitIgnoringCase(text) ==
    /\ Len(text) = 4
    /\ LowerChar(text[1]) = "e" /\ LowerChar(text[2]) = "x"
    /\ LowerChar(text[3]) = "i" /\ LowerChar(text[4]) = "t"

\* the find_text results of the texts, one after the other
RECURSIVE ResultsOf(_)
ResultsOf(texts) ==
    IF texts = <<>> THEN <<>>
    ELSE find_text(data, Head(texts)) \o ResultsOf(Tail(texts))

\* C8: interactive_search stops at the first input equal to 'exit' ignoring
\* case and reads nothing after it; the inputs before it are searched in
\* order and their results appended to the previous search_results; the
\* export happens once, after the loop, never before 'exit'.
C8_SearchLoop ==
    /\ pc = "search" =>
          /\ \A i \in 1..Len(hist.inputs) : ~EqualsExitIgnoringCase(hist.inputs[i])
          /\ hist.exports = 0
          /\ hist.ended = ""
          /\ search_results = hist.sr0 \o ResultsOf(hist.inputs)
    /\ hist.ended = "exit" =>
          LET n == Len(hist.inputs)
          IN  /\ pc # "search"
              /\ n >= 1
              /\ EqualsExitIgnoringCase(hist.inputs[n])
              /\ \A i \in 1..(n - 1) : ~EqualsExitIgnoringCase(hist.inputs[i])
              /\ hist.exports = 1
              /\ search_results =
                    hist.sr0 \o ResultsOf(SubSeq(hist.inputs, 1, n - 1))
    /\ hist.ended = "eof" => hist.exports = 0

\* C8 witness: a search that began with earlier hits read two texts that
\* both found records and then 'ExIT'.
C8_Witness ==
    /\ hist.ended = "exit"
    /\ hist.sr0 # <<>>
    /\ Len(hist.inputs) = 3
    /\ hist.inputs[3] = <<"E", "x", "I", "T">>
    /\ find_text(data, hist.inputs[1]) # <<>>
    /\ find_text(data, hist.inputs[2]) # <<>>

\* what the working directory held before the run
Untouched(file, title) == file = Absent \/ file = Stale(title)

\* the run has ended
Ended == pc \in {"done", "crashed"}

\* load_prices on a missing path raises FileNotFoundError, the store stays
\* empty, and neither the export nor the search runs
MissingPathStopsRun ==
    (ret.call = "load_prices" /\ ret.arg = "missing") =>
        /\ data = <<>>
        /\ exc = "FileNotFoundError"
        /\ Untouched(files.output, "Pozicii produktov")
        /\ Untouched(files.search, "Rezultaty poiska")
        /\ hist = NoSearch
        /\ search_results = <<>>

\* C9 as stated: a missing path raises FileNotFoundError and leaves the
\* store unchanged, no export or search runs, and 'the end' is the last
\* output of every run.
C9_TheEndAlwaysLast ==
    /\ MissingPathStopsRun
    /\ Ended => stdout # <<>> /\ stdout[Len(stdout)].msg = "the end"

\* C9 amended: as stated, for every run in which the folder path could be
\* read; a run whose first input() meets the end of input ends on that
\* EOFError and prints nothing.
C9_TheEndLastOnceStarted ==
    /\ MissingPathStopsRun
    /\ pc = "done" =>
          /\ stdout # <<>> /\ stdout[Len(stdout)].msg = "the end"
          /\ \A i \in 1..(Len(stdout) - 1) : stdout[i].msg # "the end"
    /\ pc = "crashed" => ret.call = "" /\ exc = "EOFError" /\ stdout = <<>>
    /\ (pc = "done" /\ exc # "") =>
          Len(stdout) >= 2 /\ stdout[Len(stdout) - 1].msg = "error"

\* C9 witness: a run on a missing path has ended.
C9_Witness ==
    /\ pc = "done"
    /\ ret.call = "load_prices" /\ ret.arg = "missing"
    /\ fs.entries # <<>>

\* s is a prefix of t
IsPrefix(s, t) == Len(s) <= Len(t) /\ SubSeq(t, 1, Len(s)) = s

\* C10: the store is append-only: only load_prices changes it, and the store
\* after a call has the store before it as a prefix; a load of the directory
\* appends what a load into the empty store gives.
C10_AppendOnly ==
    [][/\ IsPrefix(data, data')
       /\ data' # data => ret'.call = "load_prices"
       /\ (ret'.call = "load_prices" /\ ret'.arg = "prices") =>
             data' = data \o LoadDir(<<>>, <<>>, fs.entries).data]_vars

\* C10 witness: the directory was loaded twice, and an export and a search
\* that found records came after.
C10_Witness ==
    /\ data # <<>>
    /\ LET half == Len(data) \div 2
       IN  data = SubSeq(data, 1, half) \o SubSeq(data, 1, half)
    /\ files.output.exists
    /\ hist.ended = "exit"
    /\ search_results # <<>>

====
